---------------------------- MODULE Spec2Model ----------------------------
(***************************************************************************)
(* The flight-booking endpoint: POST /booking/.                            *)
(*                                                                         *)
(*   FastAPi_Tutorial/models.py      the Booking schema (pydantic v2)      *)
(*   Flight_Booking_API/services.py  process_booking                       *)
(*   Flight_Booking_API/routes.py    create_booking                        *)
(*                                                                         *)
(* Text is a sequence of one-character strings, so that lengths, patterns  *)
(* and formats are computed character by character.  A JSON scalar of the  *)
(* request body is a record [t, s, n]: its JSON type, its text (strings)   *)
(* and its number (integers).                                              *)
(***************************************************************************)
EXTENDS Integers, Sequences, FiniteSets, TLC

\* How many requests are in flight together.
NumRequests == 2

Requests == 1..NumRequests

(***************************************************************************)
(* Characters and text                                                     *)
(***************************************************************************)
Lower == {"a","b","c","d","e","f","g","h","i","j","k","l","m",
          "n","o","p","q","r","s","t","u","v","w","x","y","z"}
Upper == {"A","B","C","D","E","F","G","H","I","J","K","L","M",
          "N","O","P","Q","R","S","T","U","V","W","X","Y","Z"}
Digits == {"0","1","2","3","4","5","6","7","8","9"}

DigitVal(c) ==
  CASE c = "0" -> 0 [] c = "1" -> 1 [] c = "2" -> 2 [] c = "3" -> 3
    [] c = "4" -> 4 [] c = "5" -> 5 [] c = "6" -> 6 [] c = "7" -> 7
    [] c = "8" -> 8 [] c = "9" -> 9

DigitChar(n) ==
  CASE n = 0 -> "0" [] n = 1 -> "1" [] n = 2 -> "2" [] n = 3 -> "3"
    [] n = 4 -> "4" [] n = 5 -> "5" [] n = 6 -> "6" [] n = 7 -> "7"
    [] n = 8 -> "8" [] n = 9 -> "9"

AllIn(s, chars) == \A i \in 1..Len(s) : s[i] \in chars

\* The decimal value of a text of digits.
RECURSIVE ParseInt(_)
ParseInt(s) ==
  IF Len(s) = 0 THEN 0
  ELSE 10 * ParseInt(SubSeq(s, 1, Len(s) - 1)) + DigitVal(s[Len(s)])

\* The decimal digits of n >= 0, without padding.
RECURSIVE IntText(_)
IntText(n) ==
  IF n < 10 THEN <<DigitChar(n)>>
  ELSE Append(IntText(n \div 10), DigitChar(n % 10))

\* n >= 0 in at least w digits, zero-padded on the left (C's %0wd).
RECURSIVE ZeroPad(_, _)
ZeroPad(s, w) == IF Len(s) >= w THEN s ELSE ZeroPad(<<"0">> \o s, w)

\* s without the characters of drop.
RECURSIVE Strip(_, _)
Strip(s, drop) ==
  IF Len(s) = 0 THEN <<>>
  ELSE IF s[1] \in drop THEN Strip(Tail(s), drop)
       ELSE <<s[1]>> \o Strip(Tail(s), drop)

\* The positions of character c in s.
Positions(s, c) == {i \in 1..Len(s) : s[i] = c}

(***************************************************************************)
(* JSON scalars                                                            *)
(***************************************************************************)
Str(s) == [t |-> "str", s |-> s, n |-> 0]
Num(n) == [t |-> "num", s |-> <<>>, n |-> n]
Absent == [t |-> "absent", s |-> <<>>, n |-> 0]

(***************************************************************************)
(* models.py: the string fields name, next_of_kin, origin, destination     *)
(*   Field(min_length=3, max_length=50, pattern="^[a-zA-Z ]+$")            *)
(***************************************************************************)
min_length == 3
max_length == 50

\* "^[a-zA-Z ]+$" as Python's re reads it: $ also matches before a final
\* newline.
PatternLettersSpacesPythonRe(s) ==
  LET body == IF Len(s) >= 1 /\ s[Len(s)] = "\n"
              THEN SubSeq(s, 1, Len(s) - 1) ELSE s
  IN  Len(body) >= 1 /\ AllIn(body, Lower \cup Upper \cup {" "})

\* "^[a-zA-Z ]+$" as pydantic v2 evaluates a Field pattern (the Rust regex
\* engine: without the multi-line flag ^ and $ match only at the two ends of
\* the text): one or more characters, each a letter or a space.
PatternLettersSpaces(s) ==
  Len(s) >= 1 /\ AllIn(s, Lower \cup Upper \cup {" "})

\* min_length read as a strict bound.
LengthOKStrict(s) == Len(s) > min_length /\ Len(s) <= max_length

LengthOK(s) == Len(s) >= min_length /\ Len(s) <= max_length

\* A str field: a JSON string within the lengths and matching the pattern;
\* the validated value is the text itself.
ValidateText(v) ==
  [ok  |-> v.t = "str" /\ LengthOK(v.s) /\ PatternLettersSpaces(v.s),
   val |-> v.s]

(***************************************************************************)
(* models.py: age: int = Field(gt=0, lt=120)                               *)
(***************************************************************************)
age_gt == 0
age_lt == 120

\* lt read as an inclusive bound.
AgeInRangeInclusive(n) == n > age_gt /\ n <= age_lt

AgeInRange(n) == n > age_gt /\ n < age_lt

\* The model's age inputs are JSON integers (and an absent field).
ValidateAge(v) == [ok |-> v.t = "num" /\ AgeInRange(v.n), val |-> v.n]

(***************************************************************************)
(* models.py: seat_pref: str = Field(min_length=2, max_length=2,           *)
(*                                   pattern="^[A-Z][1-4]$")               *)
(***************************************************************************)
seat_length == 2

\* The digit class read as [1-5].
PatternSeatWide(s) ==
  Len(s) = 2 /\ s[1] \in Upper /\ s[2] \in {"1","2","3","4","5"}

\* "^[A-Z][1-4]$": exactly two characters, an upper-case letter and a digit
\* from 1 to 4.
PatternSeat(s) ==
  Len(s) = 2 /\ s[1] \in Upper /\ s[2] \in {"1","2","3","4"}

ValidateSeat(v) ==
  [ok  |-> v.t = "str" /\ Len(v.s) >= seat_length /\ Len(v.s) <= seat_length
                       /\ PatternSeat(v.s),
   val |-> v.s]

(***************************************************************************)
(* models.py: flight_date: date                                            *)
(*                                                                         *)
(* pydantic v2 validates a date field of a JSON body in lax mode:          *)
(*   - a string is parsed as YYYY-MM-DD;                                   *)
(*   - a string that is no such date, or a number, is then read as a       *)
(*     date-time (an RFC 3339 text, or seconds since the Unix epoch) and   *)
(*     accepted when its time of day is exactly zero.                      *)
(* The date-time texts modelled are <date><sep>HH:MM[:SS][Z], and numbers  *)
(* are whole seconds (below the library's milliseconds threshold).         *)
(***************************************************************************)
NoDate == [y |-> 0, m |-> 0, d |-> 0]

IsLeap(y) == (y % 4 = 0 /\ y % 100 # 0) \/ y % 400 = 0

DaysInMonth(y, m) ==
  IF m = 2 THEN (IF IsLeap(y) THEN 29 ELSE 28)
  ELSE IF m \in {4, 6, 9, 11} THEN 30 ELSE 31

\* datetime.date: years 1..9999, a month of the year, a day of that month.
IsCalendarDate(y, m, d) ==
  /\ y >= 1 /\ y <= 9999
  /\ m >= 1 /\ m <= 12
  /\ d >= 1 /\ d <= DaysInMonth(y, m)

\* Ten characters DDDD-DD-DD.
HasDateShape(s) ==
  /\ Len(s) = 10
  /\ \A i \in {1, 2, 3, 4, 6, 7, 9, 10} : s[i] \in Digits
  /\ s[5] = "-" /\ s[8] = "-"

DateOfText(s) ==
  [y |-> ParseInt(SubSeq(s, 1, 4)),
   m |-> ParseInt(SubSeq(s, 6, 7)),
   d |-> ParseInt(SubSeq(s, 9, 10))]

\* A text parsed as a date: YYYY-MM-DD naming a calendar date.
ParseDateText(s) ==
  IF HasDateShape(s)
  THEN LET dt == DateOfText(s)
       IN  [ok |-> IsCalendarDate(dt.y, dt.m, dt.d), val |-> dt]
  ELSE [ok |-> FALSE, val |-> NoDate]

\* HH:MM or HH:MM:SS, with an optional final Z.
TimeBody(s) ==
  IF Len(s) >= 1 /\ s[Len(s)] \in {"Z", "z"} THEN SubSeq(s, 1, Len(s) - 1) ELSE s

HasTimeShape(s) ==
  LET b == TimeBody(s)
  IN  /\ Len(b) \in {5, 8}
      /\ b[1] \in Digits /\ b[2] \in Digits /\ b[3] = ":"
      /\ b[4] \in Digits /\ b[5] \in Digits
      /\ Len(b) = 8 => (b[6] = ":" /\ b[7] \in Digits /\ b[8] \in Digits)

\* The seconds since midnight of a time text, or -1 when it is no time.
SecondsOfTime(s) ==
  IF ~HasTimeShape(s) THEN -1
  ELSE LET b  == TimeBody(s)
           hh == ParseInt(SubSeq(b, 1, 2))
           mm == ParseInt(SubSeq(b, 4, 5))
           ss == IF Len(b) = 8 THEN ParseInt(SubSeq(b, 7, 8)) ELSE 0
       IN  IF hh <= 23 /\ mm <= 59 /\ ss <= 59
           THEN hh * 3600 + mm * 60 + ss ELSE -1

\* A text parsed as a date-time with a time of day of exactly zero.
ParseMidnightText(s) ==
  IF Len(s) >= 12 /\ s[11] \in {"T", "t", " ", "_"}
  THEN LET dp == ParseDateText(SubSeq(s, 1, 10))
           tm == SecondsOfTime(SubSeq(s, 12, Len(s)))
       IN  [ok |-> dp.ok /\ tm = 0, val |-> dp.val]
  ELSE [ok |-> FALSE, val |-> NoDate]

\* The calendar date of a day number counted from 1970-01-01.
CivilFromDays(days) ==
  LET z   == days + 719468
      era == z \div 146097
      doe == z - era * 146097
      yoe == (doe - doe \div 1460 + doe \div 36524 - doe \div 146096) \div 365
      doy == doe - (365 * yoe + yoe \div 4 - yoe \div 100)
      mp  == (5 * doy + 2) \div 153
      d   == doy - (153 * mp + 2) \div 5 + 1
      m   == IF mp < 10 THEN mp + 3 ELSE mp - 9
      y   == yoe + era * 400 + (IF m <= 2 THEN 1 ELSE 0)
  IN  [y |-> y, m |-> m, d |-> d]

\* Seconds since the epoch read as a date: accepted when they fall exactly
\* on a midnight.
DateOfTimestamp(n) ==
  LET dt == CivilFromDays(n \div 86400)
  IN  [ok  |-> n % 86400 = 0 /\ IsCalendarDate(dt.y, dt.m, dt.d),
       val |-> dt]

\* The lax fall-back left out: only YYYY-MM-DD texts are dates.
ValidateDateStrict(v) ==
  IF v.t = "str" THEN ParseDateText(v.s) ELSE [ok |-> FALSE, val |-> NoDate]

ValidateDate(v) ==
  IF v.t = "str"
  THEN IF ParseDateText(v.s).ok THEN ParseDateText(v.s)
       ELSE IF ParseMidnightText(v.s).ok THEN ParseMidnightText(v.s)
       ELSE IF Len(v.s) >= 1 /\ AllIn(v.s, Digits)
            THEN DateOfTimestamp(ParseInt(v.s))
       ELSE [ok |-> FALSE, val |-> NoDate]
  ELSE IF v.t = "num" THEN DateOfTimestamp(v.n)
  ELSE [ok |-> FALSE, val |-> NoDate]

(***************************************************************************)
(* services.py: flight_date.strftime("%Y-%m-%d")                           *)
(*                                                                         *)
(* Python hands %Y to the C library.  %m and %d are two digits everywhere; *)
(* %Y is four digits on some platforms and the bare number on others       *)
(* (glibc: date(999, 1, 1).strftime("%Y") is "999").                       *)
(***************************************************************************)
YearText(y, padded) == IF padded THEN ZeroPad(IntText(y), 4) ELSE IntText(y)

strftime(dt, padded) ==
  YearText(dt.y, padded) \o <<"-">> \o ZeroPad(IntText(dt.m), 2)
                         \o <<"-">> \o ZeroPad(IntText(dt.d), 2)

(***************************************************************************)
(* models.py: phone: PhoneNumber                                           *)
(*                                                                         *)
(* pydantic_extra_types.phone_numbers.PhoneNumber: a string of 7 to 64     *)
(* characters, parsed by the phonenumbers library with no default region   *)
(* (so the number must carry its +<country code>), required to be a valid  *)
(* number of its region, and replaced by its RFC 3966 rendering            *)
(* tel:+<country code>-<national number in the region's groups>.           *)
(* The numbering plans modelled are three: +1 (ten digits, area code and   *)
(* exchange starting 2..9, groups 3-3-4), +44 mobiles (ten digits starting *)
(* 7, groups 4-6) and +234 mobiles (ten digits starting 70, 80, 81, 90 or  *)
(* 91, groups 3-3-4).                                                      *)
(***************************************************************************)
PhonePunctuation == {"-", " ", ".", "(", ")"}

CallingCodes == {<<"1">>, <<"4", "4">>, <<"2", "3", "4">>}

\* The text from its first + or digit on: what precedes a number (such as
\* the tel: of a URI) is not part of it.
RECURSIVE ExtractPossibleNumber(_)
ExtractPossibleNumber(s) ==
  IF Len(s) = 0 THEN <<>>
  ELSE IF s[1] \in Digits \cup {"+"} THEN s
       ELSE ExtractPossibleNumber(Tail(s))

\* A possible number: digits and punctuation after an optional leading +.
IsViablePhoneNumber(s) ==
  /\ Len(s) >= 2
  /\ AllIn(Tail(s), Digits \cup PhonePunctuation)
  /\ Len(Strip(s, PhonePunctuation \cup {"+"})) >= 2

\* The calling code a text of digits starts with: the shortest of one to
\* three digits that is a calling code; <<>> when none is.
CountryCodeOf(digits) ==
  IF Len(digits) >= 1 /\ SubSeq(digits, 1, 1) \in CallingCodes
  THEN SubSeq(digits, 1, 1)
  ELSE IF Len(digits) >= 2 /\ SubSeq(digits, 1, 2) \in CallingCodes
  THEN SubSeq(digits, 1, 2)
  ELSE IF Len(digits) >= 3 /\ SubSeq(digits, 1, 3) \in CallingCodes
  THEN SubSeq(digits, 1, 3)
  ELSE <<>>

NoPhone == [cc |-> <<>>, nsn |-> <<>>]

\* phonenumbers.parse(number, None)
ParsePhone(s) ==
  LET p      == ExtractPossibleNumber(s)
      digits == Strip(p, PhonePunctuation \cup {"+"})
      cc     == CountryCodeOf(digits)
  IN  IF IsViablePhoneNumber(p) /\ p[1] = "+" /\ cc # <<>>
      THEN [ok  |-> TRUE,
            val |-> [cc |-> cc, nsn |-> SubSeq(digits, Len(cc) + 1, Len(digits))]]
      ELSE [ok |-> FALSE, val |-> NoPhone]

\* phonenumbers.is_valid_number
IsValidNumber(ph) ==
  /\ Len(ph.nsn) = 10
  /\ CASE ph.cc = <<"1">> ->
            ph.nsn[1] \notin {"0", "1"} /\ ph.nsn[4] \notin {"0", "1"}
       [] ph.cc = <<"4", "4">> -> ph.nsn[1] = "7"
       [] ph.cc = <<"2", "3", "4">> ->
            SubSeq(ph.nsn, 1, 2) \in
              {<<"7", "0">>, <<"8", "0">>, <<"8", "1">>, <<"9", "0">>, <<"9", "1">>}
       [] OTHER -> FALSE

\* The national number in the groups of its region, joined by hyphens.
GroupedNationalNumber(ph) ==
  IF ph.cc = <<"4", "4">>
  THEN SubSeq(ph.nsn, 1, 4) \o <<"-">> \o SubSeq(ph.nsn, 5, 10)
  ELSE SubSeq(ph.nsn, 1, 3) \o <<"-">> \o SubSeq(ph.nsn, 4, 6)
                            \o <<"-">> \o SubSeq(ph.nsn, 7, 10)

\* The national format: the groups alone, without scheme and calling code.
FormatNational(ph) == GroupedNationalNumber(ph)

\* phonenumbers.format_number(number, PhoneNumberFormat.RFC3966)
FormatRFC3966(ph) ==
  <<"t", "e", "l", ":", "+">> \o ph.cc \o <<"-">> \o GroupedNationalNumber(ph)

ValidatePhone(v) ==
  IF v.t = "str" /\ Len(v.s) >= 7 /\ Len(v.s) <= 64 /\ ParsePhone(v.s).ok
                 /\ IsValidNumber(ParsePhone(v.s).val)
  THEN [ok |-> TRUE, val |-> FormatRFC3966(ParsePhone(v.s).val)]
  ELSE [ok |-> FALSE, val |-> <<>>]

(***************************************************************************)
(* models.py: email: EmailStr                                              *)
(*                                                                         *)
(* pydantic's EmailStr (the email-validator library, no deliverability     *)
(* check): local-part@domain, the local part dot-separated atoms, the      *)
(* domain at least two dot-separated labels of letters, digits and inner   *)
(* hyphens.  The validated value is the address with its domain in lower   *)
(* case.                                                                   *)
(***************************************************************************)
AtomChars == Lower \cup Upper \cup Digits \cup {"_", "+", "-"}

\* Dot-separated non-empty runs of the characters of chars.
DotSeparated(s, chars) ==
  /\ Len(s) >= 1
  /\ AllIn(s, chars \cup {"."})
  /\ s[1] # "." /\ s[Len(s)] # "."
  /\ \A i \in 1..(Len(s) - 1) : ~(s[i] = "." /\ s[i + 1] = ".")

DomainOK(d) ==
  /\ DotSeparated(d, Lower \cup Upper \cup Digits \cup {"-"})
  /\ Positions(d, ".") # {}
  /\ d[1] # "-" /\ d[Len(d)] # "-"
  /\ \A i \in Positions(d, ".") : d[i - 1] # "-" /\ d[i + 1] # "-"

LowerOf(c) ==
  CASE c = "A" -> "a" [] c = "B" -> "b" [] c = "C" -> "c" [] c = "D" -> "d"
    [] c = "E" -> "e" [] c = "F" -> "f" [] c = "G" -> "g" [] c = "H" -> "h"
    [] c = "I" -> "i" [] c = "J" -> "j" [] c = "K" -> "k" [] c = "L" -> "l"
    [] c = "M" -> "m" [] c = "N" -> "n" [] c = "O" -> "o" [] c = "P" -> "p"
    [] c = "Q" -> "q" [] c = "R" -> "r" [] c = "S" -> "s" [] c = "T" -> "t"
    [] c = "U" -> "u" [] c = "V" -> "v" [] c = "W" -> "w" [] c = "X" -> "x"
    [] c = "Y" -> "y" [] c = "Z" -> "z" [] OTHER -> c

ValidateEmail(v) ==
  IF v.t = "str" /\ Cardinality(Positions(v.s, "@")) = 1
  THEN LET at     == CHOOSE i \in Positions(v.s, "@") : TRUE
           local  == SubSeq(v.s, 1, at - 1)
           domain == SubSeq(v.s, at + 1, Len(v.s))
       IN  [ok  |-> DotSeparated(local, AtomChars) /\ DomainOK(domain),
            val |-> local \o <<"@">> \o [i \in 1..Len(domain) |-> LowerOf(domain[i])]]
  ELSE [ok |-> FALSE, val |-> <<>>]

(***************************************************************************)
(* models.py: ContactDetails, FlightDetails, Booking                       *)
(*                                                                         *)
(* Each model validates all of its fields and reports every one that       *)
(* fails; a nested model's errors carry its field name as a prefix.        *)
(***************************************************************************)
ContactDetails(c) ==
  [name        |-> ValidateText(c.name),
   age         |-> ValidateAge(c.age),
   email       |-> ValidateEmail(c.email),
   phone       |-> ValidatePhone(c.phone),
   next_of_kin |-> ValidateText(c.next_of_kin)]

FlightDetails(f) ==
  [origin      |-> ValidateText(f.origin),
   destination |-> ValidateText(f.destination),
   flight_date |-> ValidateDate(f.flight_date)]

\* The fields of a validated model that failed.
Failed(fields) == {f \in DOMAIN fields : ~fields[f].ok}

\* The values of a validated model.
ValuesOf(fields) == [f \in DOMAIN fields |-> fields[f].val]

ContactErrors(p) ==
  {<<"contact_details", f>> : f \in Failed(ContactDetails(p.contact_details))}

FlightErrors(p) ==
  {<<"flight_details", f>> : f \in Failed(FlightDetails(p.flight_details))}

SeatErrors(p) == IF ValidateSeat(p.seat_pref).ok THEN {} ELSE {<<"seat_pref">>}

\* Validation that stops at the first model that fails.
BookingErrorsFailFast(p) ==
  IF ContactErrors(p) # {} THEN ContactErrors(p)
  ELSE IF FlightErrors(p) # {} THEN FlightErrors(p)
  ELSE SeatErrors(p)

\* Validation that leaves seat_pref unchecked.
BookingErrorsNoSeat(p) == ContactErrors(p) \cup FlightErrors(p)

\* The error set of a payload: the paths of all its failing fields.
BookingErrors(p) == ContactErrors(p) \cup FlightErrors(p) \cup SeatErrors(p)

\* The Booking value of a payload that validates.
Booking(p) ==
  [contact_details |-> ValuesOf(ContactDetails(p.contact_details)),
   flight_details  |-> ValuesOf(FlightDetails(p.flight_details)),
   seat_pref       |-> ValidateSeat(p.seat_pref).val]

(***************************************************************************)
(* services.py: process_booking                                            *)
(***************************************************************************)
\* The record with next_of_kin copied too.
process_booking_with_kin(booking, padded) ==
  [customer_name      |-> booking.contact_details.name,
   customer_age       |-> booking.contact_details.age,
   customer_email     |-> booking.contact_details.email,
   customer_phone     |-> booking.contact_details.phone,
   next_of_kin        |-> booking.contact_details.next_of_kin,
   flight_origin      |-> booking.flight_details.origin,
   flight_destination |-> booking.flight_details.destination,
   flight_date        |-> strftime(booking.flight_details.flight_date, padded),
   seat_preference    |-> booking.seat_pref]

process_booking(booking, padded) ==
  [customer_name      |-> booking.contact_details.name,
   customer_age       |-> booking.contact_details.age,
   customer_email     |-> booking.contact_details.email,
   customer_phone     |-> booking.contact_details.phone,
   flight_origin      |-> booking.flight_details.origin,
   flight_destination |-> booking.flight_details.destination,
   flight_date        |-> strftime(booking.flight_details.flight_date, padded),
   seat_preference    |-> booking.seat_pref]

(***************************************************************************)
(* The state                                                               *)
(***************************************************************************)
VARIABLES
  payload,      \* payload[r]: the JSON body of request r
  pc,           \* pc[r]: "received", "validated" or "responded"
  booking,      \* booking[f]: the Booking bound to create_booking's parameter
                \*   in call frame f ({} when there is none)
  results,      \* results[f]: process_booking's record in frame f ({}: not run)
  response,     \* response[r]: the response sent for request r ({}: none yet)
  libcPadsYear  \* whether the platform's strftime pads %Y to four digits

vars == <<payload, pc, booking, results, response, libcPadsYear>>

ValidationErrorStatus == 422
CreatedStatus == 201

\* One call frame for all requests (a module-level variable).
SharedFrame(r) == 1

\* The call frame of request r: create_booking's parameter and locals belong
\* to the call, one per request.
Frame(r) == r

(***************************************************************************)
(* The request body is validated against Booking before the route function *)
(* is called: a failing payload is answered at once with the error list.   *)
(***************************************************************************)
ValidationPassed(r) ==
  /\ pc[r] = "received"
  /\ BookingErrors(payload[r]) = {}
  /\ booking' = [booking EXCEPT ![Frame(r)] = {Booking(payload[r])}]
  /\ pc' = [pc EXCEPT ![r] = "validated"]
  /\ UNCHANGED <<payload, results, response, libcPadsYear>>

ValidationFailed(r) ==
  /\ pc[r] = "received"
  /\ BookingErrors(payload[r]) # {}
  /\ response' = [response EXCEPT ![r] =
                    {[status |-> ValidationErrorStatus,
                      body   |-> [detail |-> BookingErrors(payload[r])]]}]
  /\ pc' = [pc EXCEPT ![r] = "responded"]
  /\ UNCHANGED <<payload, booking, results, libcPadsYear>>

(***************************************************************************)
(* routes.py: create_booking.  process_booking awaits nothing, so the call *)
(* and the return of the response are one step of the event loop.          *)
(***************************************************************************)
create_booking(r) ==
  /\ pc[r] = "validated"
  /\ \E b \in booking[Frame(r)] :
       LET res == process_booking(b, libcPadsYear)
       IN  /\ results' = [results EXCEPT ![Frame(r)] = {res}]
           /\ response' = [response EXCEPT ![r] =
                             {[status |-> CreatedStatus,
                               body   |-> [data    |-> res,
                                           message |-> "Booking successful"]]}]
  /\ pc' = [pc EXCEPT ![r] = "responded"]
  /\ UNCHANGED <<payload, booking, libcPadsYear>>

Next ==
  \E r \in Requests :
    \/ ValidationPassed(r)
    \/ ValidationFailed(r)
    \/ create_booking(r)

\* The state once the requests have arrived, their bodies drawn from bodies.
InitWith(bodies) ==
  /\ payload \in bodies
  /\ pc = [r \in Requests |-> "received"]
  /\ booking = [r \in Requests |-> {}]
  /\ results = [r \in Requests |-> {}]
  /\ response = [r \in Requests |-> {}]
  /\ libcPadsYear \in BOOLEAN

(***************************************************************************)
(* The texts of test_routes.py, and a few more                             *)
(***************************************************************************)
\* Enugu Town
EnuguTown == <<"E", "n", "u", "g", "u", " ", "T", "o", "w", "n">>
Kano == <<"K", "a", "n", "o">>
\* Ada Obi
AdaObi == <<"A", "d", "a", " ", "O", "b", "i">>
SeatA1 == <<"A", "1">>
\* 2021-12-25
TestDate == <<"2", "0", "2", "1", "-", "1", "2", "-", "2", "5">>
\* Abuja
Abuja == <<"A", "b", "u", "j", "a">>
\* Lagos
Lagos == <<"L", "a", "g", "o", "s">>
\* Jane Doe
JaneDoe == <<"J", "a", "n", "e", " ", "D", "o", "e">>
\* John Doe
JohnDoe == <<"J", "o", "h", "n", " ", "D", "o", "e">>
\* user@example.com
TestEmail == <<"u", "s", "e", "r", "@", "e", "x", "a", "m", "p", "l", "e", ".", "c", "o", "m">>
\* +2348123456789
TestPhone == <<"+", "2", "3", "4", "8", "1", "2", "3", "4", "5", "6", "7", "8", "9">>
\* tel:+234-812-345-6789
TestPhoneCanonical == <<"t", "e", "l", ":", "+", "2", "3", "4", "-", "8", "1", "2", "-", "3", "4", "5", "-", "6", "7", "8", "9">>

(***************************************************************************)
(* Request bodies                                                          *)
(***************************************************************************)
MkPayload(name, age, email, phone, kin, origin, destination, date, seat) ==
  [contact_details |-> [name |-> name, age |-> age, email |-> email,
                        phone |-> phone, next_of_kin |-> kin],
   flight_details  |-> [origin |-> origin, destination |-> destination,
                        flight_date |-> date],
   seat_pref       |-> seat]

\* The body of test_routes.py.
TestPayload ==
  MkPayload(Str(JohnDoe), Num(25), Str(TestEmail),
            Str(TestPhone), Str(JaneDoe),
            Str(Lagos), Str(Abuja), Str(TestDate), Str(SeatA1))

\* Fifty letters and spaces.
FiftyLetters == [i \in 1..50 |-> IF i % 7 = 0 THEN " " ELSE IF i % 2 = 0 THEN "n" ELSE "M"]

\* Valid bodies, each with the record the response must carry (the date as
\* the calendar date its text must denote).
GoodCases ==
  { [p |-> TestPayload,
     customer_name |-> JohnDoe, customer_age |-> 25,
     customer_email |-> TestEmail,
     customer_phone |-> TestPhoneCanonical,
     flight_origin |-> Lagos, flight_destination |-> Abuja,
     date |-> [y |-> 2021, m |-> 12, d |-> 25], seat_preference |-> SeatA1],
    \* Ada.Obi+x@Mail.Example.ORG
    [p |-> MkPayload(Str(AdaObi), Num(1), Str(<<"A", "d", "a", ".", "O", "b", "i", "+", "x", "@", "M", "a", "i", "l", ".", "E", "x", "a", "m", "p", "l", "e", ".", "O", "R", "G">>),
                     \* +1 (650) 253-0000
                     Str(<<"+", "1", " ", "(", "6", "5", "0", ")", " ", "2", "5", "3", "-", "0", "0", "0", "0">>), Str(JaneDoe),
                     \* 0999-01-01
                     Str(Kano), Str(EnuguTown), Str(<<"0", "9", "9", "9", "-", "0", "1", "-", "0", "1">>), Str(<<"Z", "4">>)),
     customer_name |-> AdaObi, customer_age |-> 1,
     \* Ada.Obi+x@mail.example.org
     customer_email |-> <<"A", "d", "a", ".", "O", "b", "i", "+", "x", "@", "m", "a", "i", "l", ".", "e", "x", "a", "m", "p", "l", "e", ".", "o", "r", "g">>,
     \* tel:+1-650-253-0000
     customer_phone |-> <<"t", "e", "l", ":", "+", "1", "-", "6", "5", "0", "-", "2", "5", "3", "-", "0", "0", "0", "0">>,
     flight_origin |-> Kano, flight_destination |-> EnuguTown,
     date |-> [y |-> 999, m |-> 1, d |-> 1], seat_preference |-> <<"Z", "4">>],
    \* a_b@x-y.co
    [p |-> MkPayload(Str(FiftyLetters), Num(119), Str(<<"a", "_", "b", "@", "x", "-", "y", ".", "c", "o">>),
                     \* +44 7400 123456
                     Str(<<"+", "4", "4", " ", "7", "4", "0", "0", " ", "1", "2", "3", "4", "5", "6">>), Str(AdaObi),
                     \* 2020-02-29
                     Str(Abuja), Str(Lagos), Str(<<"2", "0", "2", "0", "-", "0", "2", "-", "2", "9">>), Str(<<"M", "2">>)),
     customer_name |-> FiftyLetters, customer_age |-> 119,
     customer_email |-> <<"a", "_", "b", "@", "x", "-", "y", ".", "c", "o">>,
     \* tel:+44-7400-123456
     customer_phone |-> <<"t", "e", "l", ":", "+", "4", "4", "-", "7", "4", "0", "0", "-", "1", "2", "3", "4", "5", "6">>,
     flight_origin |-> Abuja, flight_destination |-> Lagos,
     date |-> [y |-> 2020, m |-> 2, d |-> 29], seat_preference |-> <<"M", "2">>] }

GoodPayloads == {c.p : c \in GoodCases}

\* The fields of a body, by path.
FieldPaths ==
  { <<"contact_details", "name">>, <<"contact_details", "age">>,
    <<"contact_details", "email">>, <<"contact_details", "phone">>,
    <<"contact_details", "next_of_kin">>,
    <<"flight_details", "origin">>, <<"flight_details", "destination">>,
    <<"flight_details", "flight_date">>, <<"seat_pref">> }

At(p, path) == IF Len(path) = 1 THEN p[path[1]] ELSE p[path[1]][path[2]]

\* Body p with the field at path set to v.
With(p, path, v) ==
  IF Len(path) = 1 THEN [p EXCEPT ![path[1]] = v]
  ELSE [p EXCEPT ![path[1]][path[2]] = v]

\* Values that violate the field's constraint, two for each field.
BadValue(path, k) ==
  LET f == path[Len(path)]
  IN  CASE f \in {"name", "origin"} ->
             \* R2 D2
             IF k = 1 THEN Str(<<"J", "o">>) ELSE Str(<<"R", "2", " ", "D", "2">>)
        [] f \in {"next_of_kin", "destination"} ->
             IF k = 1 THEN Str([i \in 1..51 |-> "x"]) ELSE Absent
        [] f = "age" -> IF k = 1 THEN Num(0) ELSE Num(120)
        [] f = "email" ->
             \* user@example | user example.com
             IF k = 1 THEN Str(<<"u", "s", "e", "r", "@", "e", "x", "a", "m", "p", "l", "e">>) ELSE Str(<<"u", "s", "e", "r", " ", "e", "x", "a", "m", "p", "l", "e", ".", "c", "o", "m">>)
        [] f = "phone" ->
             \* 2348123456789 | +23481234
             IF k = 1 THEN Str(<<"2", "3", "4", "8", "1", "2", "3", "4", "5", "6", "7", "8", "9">>) ELSE Str(<<"+", "2", "3", "4", "8", "1", "2", "3", "4">>)
        [] f = "flight_date" ->
             \* 2021-13-01 | 25/12/2021
             IF k = 1 THEN Str(<<"2", "0", "2", "1", "-", "1", "3", "-", "0", "1">>) ELSE Str(<<"2", "5", "/", "1", "2", "/", "2", "0", "2", "1">>)
        [] f = "seat_pref" -> IF k = 1 THEN Str(<<"A", "5">>) ELSE Str(<<"1", "1">>)

BadValues(path) == {BadValue(path, 1), BadValue(path, 2)}

\* The test body with the fields of V replaced by their k-th bad value.
RECURSIVE Violating(_, _, _)
Violating(p, V, k) ==
  IF V = {} THEN p
  ELSE LET path == CHOOSE x \in V : TRUE
       IN  Violating(With(p, path, BadValue(path, k)), V \ {path}, k)

\* The fields of p that hold one of the violating values.
Violated(p) == {path \in FieldPaths : At(p, path) \in BadValues(path)}

BadPayloads ==
  { Violating(TestPayload, {<<"seat_pref">>}, 1),
    Violating(TestPayload, {<<"contact_details", "age">>,
                            <<"flight_details", "flight_date">>}, 1),
    Violating(TestPayload, {<<"contact_details", "phone">>}, 2),
    Violating(TestPayload, {<<"contact_details", "name">>,
                            <<"contact_details", "next_of_kin">>}, 2) }

\* Request 1 carries a body of bodies; the others carry the test body.
OneVaries(bodies) ==
  {[r \in Requests |-> IF r = 1 THEN b ELSE TestPayload] : b \in bodies}

(***************************************************************************)
(* Specifications                                                          *)
(***************************************************************************)
\* Every request carries any of the valid and the violating bodies.
Init == InitWith([Requests -> GoodPayloads \cup BadPayloads])

Spec == Init /\ [][Next]_vars

\* Request 1 violates any set of fields.
InitFields ==
  InitWith(OneVaries({Violating(TestPayload, V, k) :
                        V \in SUBSET FieldPaths, k \in {1, 2}}))

SpecFields == InitFields /\ [][Next]_vars

(***************************************************************************)
(* What a request has been answered                                        *)
(***************************************************************************)
Responded(r) == pc[r] = "responded"

StatusOf(r) == (CHOOSE x \in response[r] : TRUE).status

BodyOf(r) == (CHOOSE x \in response[r] : TRUE).body

Succeeded(r) == Responded(r) /\ StatusOf(r) = CreatedStatus

\* The fields the error response of r names (none when it succeeded).
ErrorsNamed(r) ==
  IF StatusOf(r) = ValidationErrorStatus THEN BodyOf(r).detail ELSE {}

\* The calendar date a text <year>-<month>-<day> denotes.
DateDenoted(s) ==
  LET dashes == Positions(s, "-")
      d1     == CHOOSE i \in dashes : \A j \in dashes : i <= j
      d2     == CHOOSE i \in dashes : \A j \in dashes : i >= j
  IN  [y |-> ParseInt(SubSeq(s, 1, d1 - 1)),
       m |-> ParseInt(SubSeq(s, d1 + 1, d2 - 1)),
       d |-> ParseInt(SubSeq(s, d2 + 1, Len(s)))]

C2_NoHandlerWithoutValidation ==
  \A r \in Requests :
    Violated(payload[r]) # {} =>
      /\ booking[Frame(r)] = {}
      /\ results[Frame(r)] = {}
      /\ pc[r] # "validated"
      /\ Responded(r) => (StatusOf(r) >= 400 /\ StatusOf(r) <= 499)

\* A body violating fields of both nested models and seat_pref was refused.
C2_Witness ==
  /\ {<<"contact_details", "age">>, <<"flight_details", "origin">>,
      <<"seat_pref">>} \subseteq Violated(payload[1])
  /\ Responded(1) /\ StatusOf(1) = ValidationErrorStatus

(***************************************************************************)
(* C3: when one or more fields violate their constraints, validation fails *)
(* and the error set names every violated field, not only the first; with  *)
(* exactly one violated field it names that field.                         *)
(***************************************************************************)
C3_EveryViolatedFieldNamed ==
  \A r \in Requests :
    (Responded(r) /\ Violated(payload[r]) # {}) =>
      /\ StatusOf(r) = ValidationErrorStatus
      /\ ErrorsNamed(r) = Violated(payload[r])

\* All nine fields were violated at once and all nine were named.
C3_Witness ==
  /\ Violated(payload[1]) = FieldPaths
  /\ Responded(1) /\ ErrorsNamed(1) = FieldPaths

\* The response to body p served alone.
ServedAlone(p, padded) ==
  IF BookingErrors(p) = {}
  THEN [status |-> CreatedStatus,
        body   |-> [data    |-> process_booking(Booking(p), padded),
                    message |-> "Booking successful"]]
  ELSE [status |-> ValidationErrorStatus,
        body   |-> [detail |-> BookingErrors(p)]]

(***************************************************************************)
(* C7: the same valid body submitted twice gets two identical success      *)
(* responses, and in every interleaving each request gets the response it  *)
(* gets when served alone: no request reads or changes what another left.  *)
(***************************************************************************)
C7_RequestsIndependent ==
  /\ \A r \in Requests :
       Responded(r) => response[r] = {ServedAlone(payload[r], libcPadsYear)}
  /\ \A r1, r2 \in Requests :
       (Responded(r1) /\ Responded(r2) /\ payload[r1] = payload[r2])
         => response[r1] = response[r2]
  /\ \A r \in Requests :
       pc[r] = "received" => (booking[r] = {} /\ results[r] = {} /\ response[r] = {})

\* Two requests with the same valid body were both answered 201.
C7_Witness ==
  \E r1, r2 \in Requests :
    /\ r1 # r2 /\ payload[r1] = payload[r2] /\ Succeeded(r1) /\ Succeeded(r2)

(***************************************************************************)
(* Inputs of the single fields.  What each set should be accepted of is    *)
(* written down from the way its members are built, not computed by the    *)
(* validators.                                                             *)
(***************************************************************************)
DatePath == <<"flight_details", "flight_date">>

\* YYYY-MM-DD for numbers y, m, d, whether or not they make a date.
IsoText(y, m, d) ==
  ZeroPad(IntText(y), 4) \o <<"-">> \o ZeroPad(IntText(m), 2)
                         \o <<"-">> \o ZeroPad(IntText(d), 2)

YearsTried == {999, 1900, 2000, 2020, 2021}
LeapYearsTried == {2000, 2020}
MonthsTried == 0..13
DaysTried == {0, 1, 25, 28, 29, 30, 31, 32}
MonthLengths == <<31, 28, 31, 30, 31, 30, 31, 31, 30, 31, 30, 31>>

\* The real calendar dates among the numbers tried.
RealDate(y, m, d) ==
  /\ m \in 1..12
  /\ d >= 1
  /\ d <= MonthLengths[m] + (IF m = 2 /\ y \in LeapYearsTried THEN 1 ELSE 0)

IsoInputs ==
  {Str(IsoText(y, m, d)) : y \in YearsTried, m \in MonthsTried, d \in DaysTried}

RealIsoInputs ==
  {Str(IsoText(x[1], x[2], x[3])) :
     x \in {y \in YearsTried \X MonthsTried \X DaysTried :
              RealDate(y[1], y[2], y[3])}}

DatesOfDateTimes ==
  {<<2021, 12, 25>>, <<2021, 13, 1>>, <<2020, 2, 29>>, <<2021, 2, 29>>}

MidnightTimes ==
  \* 00:00:00 | 00:00 | 00:00:00Z
  {<<"0", "0", ":", "0", "0", ":", "0", "0">>, <<"0", "0", ":", "0", "0">>, <<"0", "0", ":", "0", "0", ":", "0", "0", "Z">>}

OtherTimes ==
  \* 10:30:00 | 00:00:01 | 00:01 | 24:00:00 | 00:00:0
  {<<"1", "0", ":", "3", "0", ":", "0", "0">>, <<"0", "0", ":", "0", "0", ":", "0", "1">>, <<"0", "0", ":", "0", "1">>, <<"2", "4", ":", "0", "0", ":", "0", "0">>, <<"0", "0", ":", "0", "0", ":", "0">>}

DateTimeInputs ==
  {Str(IsoText(x[1], x[2], x[3]) \o <<sep>> \o tm) :
     x \in DatesOfDateTimes, sep \in {"T", " "},
     tm \in MidnightTimes \cup OtherTimes}

MidnightInputs ==
  {Str(IsoText(x[1], x[2], x[3]) \o <<sep>> \o tm) :
     x \in {y \in DatesOfDateTimes : RealDate(y[1], y[2], y[3])},
     sep \in {"T", " "}, tm \in MidnightTimes}

\* Seconds since the epoch: 1640390400 is 2021-12-25T00:00:00Z, 951782400 is
\* 2000-02-29T00:00:00Z.
MidnightSeconds == {0, 86400, 951782400, 1640390400}
OtherSeconds == {1, 43200, 86399, 20211225, 1640390401}

NumberInputs ==
  {Num(n) : n \in MidnightSeconds \cup OtherSeconds \cup {-86400, -1}}
  \cup {Str(IntText(n)) : n \in MidnightSeconds \cup OtherSeconds}

MidnightNumberInputs ==
  {Num(n) : n \in MidnightSeconds \cup {-86400}}
  \cup {Str(IntText(n)) : n \in MidnightSeconds}

OtherDateInputs ==
  \* 25/12/2021 | 2021/12/25 | 2021-12-5 | 21-12-25
  {Str(<<"2", "5", "/", "1", "2", "/", "2", "0", "2", "1">>), Str(<<"2", "0", "2", "1", "/", "1", "2", "/", "2", "5">>), Str(<<"2", "0", "2", "1", "-", "1", "2", "-", "5">>), Str(<<"2", "1", "-", "1", "2", "-", "2", "5">>),
   \* 25-12-2021 | 2021-12-25T | 2021-12-25x00:00:00
   Str(<<"2", "5", "-", "1", "2", "-", "2", "0", "2", "1">>), Str(<<"2", "0", "2", "1", "-", "1", "2", "-", "2", "5", "T">>), Str(<<"2", "0", "2", "1", "-", "1", "2", "-", "2", "5", "x", "0", "0", ":", "0", "0", ":", "0", "0">>),
   \* Dec 25 2021
   Str(<<"D", "e", "c", " ", "2", "5", " ", "2", "0", "2", "1">>), Str(<<>>), Absent}

DateInputs ==
  IsoInputs \cup DateTimeInputs \cup NumberInputs \cup OtherDateInputs

\* Request 1 carries the test body with the field at path set to any of vs.
FieldVaries(paths, vs) ==
  InitWith(OneVaries({With(TestPayload, path, v) : path \in paths, v \in vs}))

InitDate == FieldVaries({DatePath}, DateInputs)

SpecDate == InitDate /\ [][Next]_vars

InitIsoDate == FieldVaries({DatePath}, IsoInputs)

SpecIsoDate == InitIsoDate /\ [][Next]_vars

C5_FlightDateEchoed ==
  \A r \in Requests :
    (Succeeded(r) /\ At(payload[r], DatePath).t = "str") =>
      /\ HasDateShape(BodyOf(r).data.flight_date)
      /\ BodyOf(r).data.flight_date = At(payload[r], DatePath).s

(***************************************************************************)
(* Phone numbers                                                           *)
(***************************************************************************)
PhonePath == <<"contact_details", "phone">>

CallingCodesTried == {<<"1">>, <<"4", "4">>, <<"2", "3", "4">>, <<"9", "9", "9">>}

NationalNumbersTried ==
  \* 8123456789 | 6502530000 | 7400123456 | 0123456789
  {<<"8", "1", "2", "3", "4", "5", "6", "7", "8", "9">>, <<"6", "5", "0", "2", "5", "3", "0", "0", "0", "0">>, <<"7", "4", "0", "0", "1", "2", "3", "4", "5", "6">>, <<"0", "1", "2", "3", "4", "5", "6", "7", "8", "9">>,
   \* 812345678 | 81234567890
   <<"8", "1", "2", "3", "4", "5", "6", "7", "8">>, <<"8", "1", "2", "3", "4", "5", "6", "7", "8", "9", "0">>}

\* The ways a number is written: bare, spaced, with parentheses, as a tel:
\* URI, and without its +.
PhoneWritten(cc, nsn, style) ==
  LET a == SubSeq(nsn, 1, 3)
      b == SubSeq(nsn, 4, 6)
      c == SubSeq(nsn, 7, Len(nsn))
  IN  CASE style = "bare"   -> <<"+">> \o cc \o nsn
        [] style = "spaced" -> <<"+">> \o cc \o <<" ">> \o a \o <<" ">> \o b \o <<" ">> \o c
        [] style = "parens" -> <<"+">> \o cc \o <<" ", "(">> \o a \o <<")", " ">> \o b \o <<"-">> \o c
        \* tel:+
        [] style = "uri"    -> <<"t", "e", "l", ":", "+">> \o cc \o <<"-">> \o a \o <<"-">> \o b \o <<"-">> \o c
        [] style = "noplus" -> cc \o nsn

PhoneInputs ==
  {Str(PhoneWritten(cc, nsn, style)) :
     cc \in CallingCodesTried, nsn \in NationalNumbersTried,
     style \in {"bare", "spaced", "parens", "uri", "noplus"}}
  \* tel:+44-7400-123456 | +1 23
  \cup {Str(<<"t", "e", "l", ":", "+", "4", "4", "-", "7", "4", "0", "0", "-", "1", "2", "3", "4", "5", "6">>), Str(<<"+", "1", " ", "2", "3">>), Str(<<>>), Num(650), Absent}

InitPhone == FieldVaries({PhonePath}, PhoneInputs)

SpecPhone == InitPhone /\ [][Next]_vars

\* The digits of a phone text.
DigitsOf(s) == SelectSeq(s, LAMBDA c : c \in Digits)

(***************************************************************************)
(* C6: for every accepted phone value the response carries the canonical   *)
(* form of the number (+2348123456789 comes back as tel:+234-812-345-6789) *)
(* rather than the submitted text, and the canonical form is itself        *)
(* accepted when it is submitted as the phone field.                       *)
(***************************************************************************)
C6_CanonicalPhoneResubmits ==
  \A r \in Requests :
    Succeeded(r) =>
      LET sub == At(payload[r], PhonePath).s
          out == BodyOf(r).data.customer_phone
      IN  /\ SubSeq(out, 1, 5) = <<"t", "e", "l", ":", "+">>
          /\ AllIn(SubSeq(out, 6, Len(out)), Digits \cup {"-"})
          /\ DigitsOf(out) = DigitsOf(sub)
          /\ SubSeq(sub, 1, 4) # <<"t", "e", "l", ":">> => out # sub
          /\ sub = TestPhone => out = TestPhoneCanonical
          /\ ValidatePhone(Str(out)) = [ok |-> TRUE, val |-> out]

\* A number written with spaces and parentheses came back in canonical form.
C6_Witness ==
  \* +1 (650) 253-0000
  /\ At(payload[1], PhonePath) = Str(<<"+", "1", " ", "(", "6", "5", "0", ")", " ", "2", "5", "3", "-", "0", "0", "0", "0">>)
  /\ Succeeded(1)
  \* tel:+1-650-253-0000
  /\ BodyOf(1).data.customer_phone = <<"t", "e", "l", ":", "+", "1", "-", "6", "5", "0", "-", "2", "5", "3", "-", "0", "0", "0", "0">>

(***************************************************************************)
(* Ages                                                                    *)
(***************************************************************************)
AgePath == <<"contact_details", "age">>

AgeInputs == {Num(n) : n \in (age_gt - 5)..(age_lt + 5)} \cup {Absent}

InitAge == FieldVaries({AgePath}, AgeInputs)

SpecAge == InitAge /\ [][Next]_vars

TextPaths ==
  {<<"contact_details", "name">>, <<"contact_details", "next_of_kin">>,
   <<"flight_details", "origin">>, <<"flight_details", "destination">>}

LengthsTried ==
  {0, 1, min_length - 1, min_length, min_length + 1,
   max_length - 1, max_length, max_length + 1, max_length + 2}

\* n letters and spaces.
Letters(n) ==
  [i \in 1..n |-> IF i % 5 = 0 THEN " " ELSE IF i % 2 = 0 THEN "q" ELSE "K"]

Spaces(n) == [i \in 1..n |-> " "]

OddCharacters == {"7", "\n", "-", "_", "."}

\* n letters and spaces but for the character c at position pos.
LettersBut(n, pos, c) == [Letters(n) EXCEPT ![pos] = c]

CleanTexts == {Letters(n) : n \in LengthsTried} \cup {Spaces(n) : n \in LengthsTried}

OddTexts ==
  UNION {{LettersBut(n, pos, c) : pos \in {1, (n + 1) \div 2, n}, c \in OddCharacters} :
           n \in LengthsTried \ {0}}

TextInputs ==
  {Str(s) : s \in CleanTexts \cup OddTexts} \cup {Num(123), Absent}

\* The texts tried that consist of 3 to 50 letters and spaces.
AcceptableTexts ==
  {Letters(n) : n \in 3..50} \cup {Spaces(n) : n \in 3..50}

InitText == FieldVaries(TextPaths, TextInputs)

SpecText == InitText /\ [][Next]_vars

(***************************************************************************)
(* C9: each of name, next_of_kin, origin and destination is accepted       *)
(* exactly when the whole text consists only of letters and spaces and its *)
(* length is between 3 and 50: lengths 3 and 50 are accepted, 2 and 51     *)
(* rejected, and a text with a digit or any other character that is no     *)
(* letter or space, anywhere including at its end, is rejected.            *)
(***************************************************************************)
C9_TextWholeMatch ==
  \A r \in Requests : \A path \in TextPaths :
    (Responded(r) /\ At(payload[r], path) \in TextInputs) =>
      LET v == At(payload[r], path)
      IN  /\ path \notin ErrorsNamed(r) <=> (v.t = "str" /\ v.s \in AcceptableTexts)
          /\ Succeeded(r) <=> ErrorsNamed(r) = {}

\* A destination of fifty letters and spaces was accepted.
C9_Witness ==
  /\ At(payload[1], <<"flight_details", "destination">>) = Str(Letters(50))
  /\ Succeeded(1)

(***************************************************************************)
(* Seats                                                                   *)
(***************************************************************************)
SeatPath == <<"seat_pref">>

SeatCharacters ==
  Upper \cup {"a", "z", "0", "1", "2", "3", "4", "5", "9", " ", "\n", "-"}

SeatInputs ==
  {Str(<<a, b>>) : a \in SeatCharacters, b \in SeatCharacters}
  \cup {Str(<<>>), Str(<<"A">>), Str(<<"1">>), Str(<<"A", "1", "1">>), Str(<<"A", "A", "1">>), Str(<<" ", "A", "1">>),
        Str(<<"A", "1", "\n">>), Str(<<"\n", "A", "1">>), Num(1), Absent}

\* A1 .. Z4.
AcceptableSeats == {<<a, b>> : a \in Upper, b \in {"1", "2", "3", "4"}}

InitSeat == FieldVaries({SeatPath}, SeatInputs)

SpecSeat == InitSeat /\ [][Next]_vars

(***************************************************************************)
(* C10: seat_pref is accepted exactly when it is a text of two characters, *)
(* an upper-case letter A-Z and then a digit 1-4; every other value (A5,   *)
(* 11, a lower-case letter, a text of another length) is rejected.         *)
(***************************************************************************)
C10_SeatLetterAndDigit ==
  \A r \in Requests :
    Responded(r) =>
      LET v == At(payload[r], SeatPath)
      IN  /\ Succeeded(r) <=> (v.t = "str" /\ v.s \in AcceptableSeats)
          /\ ~Succeeded(r) => ErrorsNamed(r) = {SeatPath}

\* Seat Z4 was accepted.
C10_Witness == At(payload[1], SeatPath) = Str(<<"Z", "4">>) /\ Succeeded(1)

=============================================================================
